---- MODULE Spec2Model ----
(***************************************************************************)
(* pogr_tracing_rs: PogrAppender (session handshake and log submission),   *)
(* JsonVisitor, serialize_metadata and PogrLayer::on_event with the        *)
(* dispatch tasks it spawns behind one tokio Mutex.                        *)
(***************************************************************************)
EXTENDS Integers, Sequences, FiniteSets, TLC

\* ------------------------------------------------------------------ bounds
\* events delivered to PogrLayer::on_event that the model follows, those of the
\* application and the diagnostics of PogrAppender::log together
MaxEvents == 2
MaxVisits == 2

\* ------------------------------------------------------------- Option<T>
None == << >>
Some(v) == << v >>
IsSome(o) == o # None
Unwrap(o) == o[1]

\* -------------------------------------------------------------- constants
DEFAULT_INIT_ENDPOINT == "https://api.pogr.io/v1/intake/init"
DEFAULT_LOGS_ENDPOINT == "https://api.pogr.io/v1/intake/logs"
DEFAULT_ENVIRONMENT == "development"
DEFAULT_SERVICE_TYPE == "service"
LOG_TEXT == "rust tracing log captured"
DIAG_LINE == 468

\* ------------------------------------------------------------ JSON values
JNull == [t |-> "null"]
JBool(b) == [t |-> "bool", v |-> b]
JNum(n) == [t |-> "number", v |-> n]
JStr(s) == [t |-> "string", v |-> s]

\* tracing::Level
Levels == {"TRACE", "DEBUG", "INFO", "WARN", "ERROR"}

\* <Level as Display>::fmt, used by metadata.level().to_string()
LevelDisplay(l) == l

\* <Level as Debug>::fmt, used by format!("{:?}", metadata.level())
LevelDebug(l) ==
    CASE l = "TRACE" -> "Level(Trace)"
      [] l = "DEBUG" -> "Level(Debug)"
      [] l = "INFO" -> "Level(Info)"
      [] l = "WARN" -> "Level(Warn)"
      [] l = "ERROR" -> "Level(Error)"

\* --------------------------------------------------------------- JsonVisitor
JsonVisitor_new == << >>

\* f64 values are [cls |-> c, n |-> k] with c "finite", "nan" or "inf" (n is
\* read for finite values only):
\* json!(f64) is Number::from_f64(v).map_or(Null, Number)
record_f64(fields, name, value) ==
    (name :> (IF value.cls = "finite" THEN JNum(value.n) ELSE JNull)) @@ fields

record_i64(fields, name, value) == (name :> JNum(value)) @@ fields
record_u64(fields, name, value) == (name :> JNum(value)) @@ fields
\* record_bool keeping the entry a name already has
record_bool_keep_first(fields, name, value) == fields @@ (name :> JBool(value))

record_bool(fields, name, value) == (name :> JBool(value)) @@ fields
record_str(fields, name, value) == (name :> JStr(value)) @@ fields

\* a value recorded through its formatting traits is [display |-> .., debug |-> ..]:
\* the text its Display impl writes and the text its Debug impl writes
to_string(value) == value.display
format_debug(value) == value.debug

record_error(fields, name, value) == (name :> JStr(to_string(value))) @@ fields
record_debug(fields, name, value) == (name :> JStr(format_debug(value))) @@ fields

\* one call of the Visit trait, dispatched on the field's kind
Visit(fields, f) ==
    CASE f.kind = "i64" -> record_i64(fields, f.name, f.value)
      [] f.kind = "u64" -> record_u64(fields, f.name, f.value)
      [] f.kind = "f64" -> record_f64(fields, f.name, f.value)
      [] f.kind = "bool" -> record_bool(fields, f.name, f.value)
      [] f.kind = "str" -> record_str(fields, f.name, f.value)
      [] f.kind = "error" -> record_error(fields, f.name, f.value)
      [] f.kind = "debug" -> record_debug(fields, f.name, f.value)

\* event.record(&mut visitor): the fields are visited in order
RECURSIVE event_record(_, _)
event_record(fields, visits) ==
    IF visits = << >> THEN fields
    ELSE event_record(Visit(fields, Head(visits)), Tail(visits))

\* ------------------------------------------------------- serialize_metadata
\* serialize_metadata with the line reported only for a callsite that has a file
serialize_metadata_line_with_file(metadata) ==
    [name |-> JStr(metadata.name),
     target |-> JStr(metadata.target),
     level |-> JStr(LevelDebug(metadata.level)),
     file |-> IF IsSome(metadata.file) THEN JStr(Unwrap(metadata.file)) ELSE JNull,
     line |-> IF IsSome(metadata.file) /\ IsSome(metadata.line)
              THEN JNum(Unwrap(metadata.line)) ELSE JNull]

serialize_metadata(metadata) ==
    [name |-> JStr(metadata.name),
     target |-> JStr(metadata.target),
     level |-> JStr(LevelDebug(metadata.level)),
     file |-> IF IsSome(metadata.file) THEN JStr(Unwrap(metadata.file)) ELSE JNull,
     line |-> IF IsSome(metadata.line) THEN JNum(Unwrap(metadata.line)) ELSE JNull]

\* ---------------------------------------------------------------- inputs
\* the process environment as PogrAppender::new reads it (None: variable unset);
\* exe stands for env::current_exe()...to_str(), None when a step of it fails.
\* SERVICE_NAME, ENVIRONMENT and SERVICE_TYPE are read by three copies of one
\* expression: the environments drawn set all three or none of them.
Envs ==
    {e \in [POGR_ACCESS : {None, Some("test_access_key")},
            POGR_SECRET : {None, Some("test_secret_key")},
            POGR_INIT_ENDPOINT : {None, Some("http://env/init")},
            POGR_LOGS_ENDPOINT : {None, Some("http://env/logs")},
            SERVICE_NAME : {None, Some("svc")},
            ENVIRONMENT : {None, Some("production")},
            SERVICE_TYPE : {None, Some("worker")},
            exe : {None, Some("app")}] :
        /\ IsSome(e.SERVICE_NAME) <=> IsSome(e.ENVIRONMENT)
        /\ IsSome(e.SERVICE_NAME) <=> IsSome(e.SERVICE_TYPE)}

InitArgs == {None, Some("http://mock/v1/intake/init")}
LogsArgs == {None, Some("http://mock/v1/intake/logs")}
SessionIds == {"test_session_id", ""}

\* events the application emits: tests/tracing_test.rs:79, and one whose
\* callsite has no file and line and repeats a field name
AppEvents ==
    {[name |-> "event tests/tracing_test.rs:79", target |-> "tracing_test",
      level |-> "INFO", file |-> Some("tests/tracing_test.rs"), line |-> Some(79),
      visits |-> << [name |-> "message", kind |-> "debug",
                     value |-> [display |-> "This is a test log message",
                                debug |-> "This is a test log message"]],
                    [name |-> "service", kind |-> "str", value |-> "TestService"] >>],
     [name |-> "tick", target |-> "app", level |-> "WARN",
      file |-> None, line |-> None,
      visits |-> << [name |-> "n", kind |-> "i64", value |-> -1],
                    [name |-> "n", kind |-> "bool", value |-> TRUE] >>]}

\* the event of error!("Failed to log to POGR: {:?}", response) at lib.rs:468
DiagEvent ==
    [name |-> "event src/lib.rs:468", target |-> "pogr_tracing_rs",
     level |-> "ERROR", file |-> Some("src/lib.rs"), line |-> Some(DIAG_LINE),
     visits |-> << [name |-> "message", kind |-> "debug",
                    value |-> [display |-> "Failed to log to POGR: LogResponse { success: false, .. }",
                               debug |-> "Failed to log to POGR: LogResponse { success: false, .. }"]] >>]

\* panic messages
MSG_ACCESS == "POGR_ACCESS must be set"
MSG_SECRET == "POGR_SECRET must be set"
MSG_EXE == "called Option::unwrap() on a None value"
MSG_INIT_SEND == "Failed to send init request"
MSG_INIT_JSON == "Failed to deserialize init response"
MSG_INIT_FAIL == "Failed to initialize POGR session"
MSG_LOG_SEND == "Failed to send log request"
MSG_LOG_JSON == "Failed to deserialize log response"
MSG_NO_RUNTIME == "there is no reactor running, must be called from the context of a Tokio 1.x runtime"

\* ----------------------------------------------------------------- state
VARIABLES
    strict,     \* logs endpoint policy: TRUE answers by the session header alone
    initResp,   \* the answer the init endpoint gave to the handshake (Option)
    call,       \* arguments of the PogrAppender::new call (Option of record)
    env,        \* the process environment as the running PogrAppender::new call
                \* read it (Option; None while no call is running)
    pcNew,      \* PogrAppender::new: "start", "awaiting", "built", "panicked"
    ctor,       \* locals of PogrAppender::new across its await (Option)
    initReqs,   \* requests sent to the init endpoint
    appender,   \* the PogrAppender behind Arc<Mutex<..>> (Option)
    pc,         \* emitting thread: "idle", "spawn" (inside on_event), "panicked",
                \* "exited" (the process is gone)
    cur,        \* locals of the on_event call of the emitting thread (Option)
    capture,    \* one capture (lib.rs:538-541, 553) taken field by field
                \* (Option; used by SpecCapture only)
    events,     \* events delivered to PogrLayer::on_event, in delivery order
    tasks,      \* dispatch tasks created by tokio::spawn, in spawn order; st is
                \* "scheduled", "inflight", "reported" (inside error!), "done"
                \* or "panicked"
    lock,       \* holder of the tokio Mutex: a task index, 0 when free
    logReqs,    \* requests sent to the logs endpoint, in send order
    panics      \* panics raised so far: [who, id, msg]

vars == << strict, initResp, call, env, pcNew, ctor, initReqs, appender,
           pc, cur, capture, events, tasks, lock, logReqs, panics >>

newVars == << initResp, call, env, pcNew, ctor, initReqs, appender >>
emitVars == << pc, cur >>

Init ==
    /\ strict \in BOOLEAN
    /\ initResp = None
    /\ call = None
    /\ env = None
    /\ pcNew = "start"
    /\ ctor = None
    /\ initReqs = << >>
    /\ appender = None
    /\ pc = "idle"
    /\ cur = None
    /\ capture = None
    /\ events = << >>
    /\ tasks = << >>
    /\ lock = 0
    /\ logReqs = << >>
    /\ panics = {}

Panic(who, id, msg) == [who |-> who, id |-> id, msg |-> msg]

\* ------------------------------------------------------- PogrAppender::new
\* ResolveEndpoint with the environment variable consulted before the argument
ResolveEnvFirst(arg, envVar, default) ==
    IF IsSome(envVar) THEN Unwrap(envVar)
    ELSE IF IsSome(arg) THEN Unwrap(arg)
    ELSE default

\* init_endpoint.or_else(|| env::var(..).ok()).unwrap_or_else(|| default)
ResolveEndpoint(arg, envVar, default) ==
    IF IsSome(arg) THEN Unwrap(arg)
    ELSE IF IsSome(envVar) THEN Unwrap(envVar)
    ELSE default

\* lib.rs:394-416: everything up to the first await of the handshake
new_start(init_endpoint, logs_endpoint, environ) ==
    /\ pcNew = "start"
    /\ call' = Some([init_endpoint |-> init_endpoint, logs_endpoint |-> logs_endpoint])
    /\ IF ~IsSome(environ.SERVICE_NAME) /\ ~IsSome(environ.exe)
       THEN /\ pcNew' = "panicked"
            /\ panics' = panics \cup {Panic("new", 0, MSG_EXE)}
            /\ UNCHANGED << env, ctor, initReqs >>
       ELSE IF ~IsSome(environ.POGR_ACCESS)
       THEN /\ pcNew' = "panicked"
            /\ panics' = panics \cup {Panic("new", 0, MSG_ACCESS)}
            /\ UNCHANGED << env, ctor, initReqs >>
       ELSE IF ~IsSome(environ.POGR_SECRET)
       THEN /\ pcNew' = "panicked"
            /\ panics' = panics \cup {Panic("new", 0, MSG_SECRET)}
            /\ UNCHANGED << env, ctor, initReqs >>
       ELSE LET service_name == IF IsSome(environ.SERVICE_NAME)
                                THEN Unwrap(environ.SERVICE_NAME) ELSE Unwrap(environ.exe)
                environment == IF IsSome(environ.ENVIRONMENT)
                               THEN Unwrap(environ.ENVIRONMENT) ELSE DEFAULT_ENVIRONMENT
                service_type == IF IsSome(environ.SERVICE_TYPE)
                                THEN Unwrap(environ.SERVICE_TYPE) ELSE DEFAULT_SERVICE_TYPE
                init_endpoint_url ==
                    ResolveEndpoint(init_endpoint, environ.POGR_INIT_ENDPOINT,
                                    DEFAULT_INIT_ENDPOINT)
                logs_endpoint_url ==
                    ResolveEndpoint(logs_endpoint, environ.POGR_LOGS_ENDPOINT,
                                    DEFAULT_LOGS_ENDPOINT)
            IN /\ env' = Some(environ)
               /\ ctor' = Some([service_name |-> service_name,
                                environment |-> environment,
                                service_type |-> service_type,
                                init_endpoint_url |-> init_endpoint_url,
                                logs_endpoint_url |-> logs_endpoint_url])
               /\ initReqs' = Append(initReqs,
                                [url |-> init_endpoint_url,
                                 POGR_ACCESS |-> Unwrap(environ.POGR_ACCESS),
                                 POGR_SECRET |-> Unwrap(environ.POGR_SECRET)])
               /\ pcNew' = "awaiting"
               /\ UNCHANGED panics
    /\ UNCHANGED << strict, capture, initResp, appender, emitVars, events, tasks, lock, logReqs >>

\* NewAppender with the two endpoint fields exchanged
NewAppenderSwapped(locals, session_id) ==
    [service_name |-> locals.service_name,
     environment |-> locals.environment,
     service_type |-> locals.service_type,
     session_id |-> session_id,
     logs_endpoint |-> locals.init_endpoint_url,
     init_endpoint |-> locals.logs_endpoint_url]

\* the PogrAppender value built at lib.rs:423-431
NewAppender(locals, session_id) ==
    [service_name |-> locals.service_name,
     environment |-> locals.environment,
     service_type |-> locals.service_type,
     session_id |-> session_id,
     logs_endpoint |-> locals.logs_endpoint_url,
     init_endpoint |-> locals.init_endpoint_url]

\* responses of the init endpoint: success flag and session id, or no usable answer
InitOutcomes ==
    [kind : {"json"}, success : BOOLEAN, session_id : SessionIds]
    \cup [kind : {"transport", "malformed"}, success : {FALSE}, session_id : {""}]

\* InitVerdict with a body that does not deserialize taken for a session
InitVerdictLenient(resp) ==
    CASE resp.kind = "transport" -> MSG_INIT_SEND
      [] resp.kind = "malformed" -> "ok"
      [] resp.kind = "json" /\ resp.success -> "ok"
      [] resp.kind = "json" /\ ~resp.success -> MSG_INIT_FAIL

\* InitVerdict with the success flag not tested
InitVerdictUnchecked(resp) ==
    CASE resp.kind = "transport" -> MSG_INIT_SEND
      [] resp.kind = "malformed" -> MSG_INIT_JSON
      [] resp.kind = "json" -> "ok"

\* lib.rs:415-434: "ok" when the handshake yields a session, else the panic raised
InitVerdict(resp) ==
    CASE resp.kind = "transport" -> MSG_INIT_SEND
      [] resp.kind = "malformed" -> MSG_INIT_JSON
      [] resp.kind = "json" /\ resp.success -> "ok"
      [] resp.kind = "json" /\ ~resp.success -> MSG_INIT_FAIL

\* AfterHandshake with a failed handshake tried again: the call goes back to
\* its start
AfterHandshakeRetried(verdict) == IF verdict = "ok" THEN "built" ELSE "start"

\* lib.rs:422-434: where PogrAppender::new ends, by returning the appender or
\* by a panic; there is no loop around the handshake
AfterHandshake(verdict) == IF verdict = "ok" THEN "built" ELSE "panicked"

\* lib.rs:416-435: the handshake answer arrives
new_finish(resp) ==
    /\ pcNew = "awaiting"
    /\ initResp' = Some(resp)
    /\ env' = None
    /\ ctor' = None
    /\ pcNew' = AfterHandshake(InitVerdict(resp))
    /\ IF InitVerdict(resp) = "ok"
       THEN /\ appender' = Some(NewAppender(Unwrap(ctor), resp.session_id))
            /\ UNCHANGED panics
       ELSE /\ panics' = panics \cup {Panic("new", 0, InitVerdict(resp))}
            /\ UNCHANGED appender
    /\ UNCHANGED << strict, capture, call, initReqs, emitVars, events, tasks, lock, logReqs >>

\* ------------------------------------------------------ PogrLayer::on_event
\* event.metadata()
Metadata(e) ==
    [name |-> e.name, target |-> e.target, level |-> e.level,
     file |-> e.file, line |-> e.line]

\* lib.rs:537-541: the synchronous part, what the async block then moves in
Capture(id, e) ==
    [ev |-> id,
     metadata |-> Metadata(e),
     fields |-> event_record(JsonVisitor_new, e.visits)]

\* lib.rs:543: the future handed to tokio::spawn, not yet polled
NewTask(captured) ==
    [ev |-> captured.ev, st |-> "scheduled", outcome |-> "none",
     metadata |-> captured.metadata, fields |-> captured.fields]

\* lib.rs:536-541 on the emitting thread
on_event_capture(e) ==
    /\ pcNew = "built"
    /\ pc = "idle"
    /\ Len(events) < MaxEvents
    /\ events' = Append(events, [src |-> "app", event |-> e])
    /\ cur' = Some(Capture(Len(events) + 1, e))
    /\ pc' = "spawn"
    /\ UNCHANGED << strict, capture, newVars, tasks, lock, logReqs, panics >>

\* lib.rs:543 on a thread inside a Tokio runtime context: the task is queued
on_event_spawn ==
    /\ pc = "spawn"
    /\ tasks' = Append(tasks, NewTask(Unwrap(cur)))
    /\ cur' = None
    /\ pc' = "idle"
    /\ UNCHANGED << strict, capture, newVars, events, lock, logReqs, panics >>

\* lib.rs:543 on a thread with no Tokio runtime context: tokio::spawn panics
on_event_no_runtime ==
    /\ pc = "spawn"
    /\ panics' = panics \cup {Panic("emitter", 0, MSG_NO_RUNTIME)}
    /\ cur' = None
    /\ pc' = "panicked"
    /\ UNCHANGED << strict, capture, newVars, events, tasks, lock, logReqs >>

\* ------------------------------------------------------------ dispatch task
Tasks == 1..Len(tasks)

\* the process, and with it the runtime that polls the tasks, is still there
Running == pc # "exited"

\* LockFree with the guard test lost: every poll is granted the mutex
LockNotChecked == TRUE

\* tokio::sync::Mutex::lock: granted only while no guard is alive
LockFree == lock = 0

\* Moved with the visitor and metadata shared by all events: the task reads
\* what the latest on_event call captured
MovedShared(t) ==
    LET c == Capture(Len(events), events[Len(events)].event)
    IN [metadata |-> c.metadata, fields |-> c.fields]

\* what the async block owns: lib.rs:543 async move { .. metadata .. visitor.fields }
Moved(t) == [metadata |-> tasks[t].metadata, fields |-> tasks[t].fields]

\* LogRequest with the service name and the service type exchanged
LogRequestTypeAsService(a, m) ==
    [service |-> a.service_type,
     environment |-> a.environment,
     severity |-> LevelDisplay(m.metadata.level),
     type |-> a.service_name,
     log |-> LOG_TEXT,
     data |-> serialize_metadata(m.metadata),
     tags |-> m.fields]

\* lib.rs:547-555
LogRequest(a, m) ==
    [service |-> a.service_name,
     environment |-> a.environment,
     severity |-> LevelDisplay(m.metadata.level),
     type |-> a.service_type,
     log |-> LOG_TEXT,
     data |-> serialize_metadata(m.metadata),
     tags |-> m.fields]

\* SessionHeader sending the service name in place of the session id
SessionHeaderWrongField(a) == a.service_name

\* lib.rs:457: .header("INTAKE_SESSION_ID", &self.session_id)
SessionHeader(a) == a.session_id

\* LogPost with the secret sent along on every log request
LogPostWithSecret(a, t, log_request) ==
    [task |-> t,
     url |-> a.logs_endpoint,
     INTAKE_SESSION_ID |-> SessionHeader(a),
     POGR_SECRET |-> "test_secret_key",
     body |-> log_request]

\* lib.rs:456-460: the POST built by PogrAppender::log
LogPost(a, t, log_request) ==
    [task |-> t,
     url |-> a.logs_endpoint,
     INTAKE_SESSION_ID |-> SessionHeader(a),
     body |-> log_request]

\* Sendable with a retry loop around the log call: a task whose submit call
\* failed sends again
SendableRetry(t) == tasks[t].st \in {"scheduled", "panicked"}

\* Sendable with every task awaiting the tasks spawned before it
SendableInOrder(t) ==
    /\ tasks[t].st = "scheduled"
    /\ \A u \in 1..(t - 1) : tasks[u].st \in {"done", "panicked"}

\* Sendable with the tasks started in spawn order: a task sends only when no
\* task spawned before it is still waiting
SendableFifo(t) ==
    /\ tasks[t].st = "scheduled"
    /\ \A u \in 1..(t - 1) : tasks[u].st # "scheduled"

\* lib.rs:543-556: the async block is straight-line code, it awaits the mutex and
\* its own log call and nothing else, and it calls log once: a task has a
\* request to send only until it has sent it
Sendable(t) == tasks[t].st = "scheduled"

\* lib.rs:544-556 and 451-461, the first poll that finds the mutex free:
\* take the guard, build the LogRequest, call log, send the POST
task_send(t) ==
    /\ Running
    /\ Sendable(t)
    /\ LockFree
    /\ lock' = t
    /\ logReqs' = Append(logReqs,
                         LogPost(Unwrap(appender), t,
                                 LogRequest(Unwrap(appender), Moved(t))))
    /\ tasks' = [tasks EXCEPT ![t].st = "inflight"]
    /\ UNCHANGED << strict, capture, newVars, emitVars, events, panics >>

\* the request task t has in flight
RequestOf(t) == CHOOSE i \in 1..Len(logReqs) : logReqs[i].task = t

\* the mock of tests/log_test.rs:24-30 set up for the session the init endpoint
\* handed out: success for the matching session header, no JSON body (501) for
\* any other request
StrictAnswer(req) ==
    IF req.INTAKE_SESSION_ID = Unwrap(initResp).session_id THEN "ok" ELSE "malformed"

\* answers the logs endpoint can give to the request of task t
LogOutcomes(t) ==
    IF strict THEN {StrictAnswer(logReqs[RequestOf(t)])}
    ELSE {"ok", "transport", "malformed"}
         \cup (IF Len(events) < MaxEvents THEN {"rejected"} ELSE {})

\* lib.rs:468: error!(..) runs PogrLayer::on_event on the thread of the task
EmitDiag(evs, tks) ==
    LET id == Len(evs) + 1
    IN [events |-> Append(evs, [src |-> "diag", event |-> DiagEvent]),
        tasks |-> Append(tks, NewTask(Capture(id, DiagEvent)))]

\* AfterLog with success = false escalated like the two expects
AfterLogEscalated(outcome) ==
    CASE outcome = "ok" -> "done"
      [] outcome = "rejected" -> "panicked"
      [] outcome = "transport" -> "panicked"
      [] outcome = "malformed" -> "panicked"

\* state of a task whose log call met the given outcome, lib.rs:461-470 and 557:
\* on success log returns and the block ends; on success = false the task is
\* inside error!; a failed expect unwinds the task
AfterLog(outcome) ==
    CASE outcome = "ok" -> "done"
      [] outcome = "rejected" -> "reported"
      [] outcome = "transport" -> "panicked"
      [] outcome = "malformed" -> "panicked"

\* Detached with the task joined by the emitting thread: a panic of the task
\* is resumed there
Joined(emitter, outcome) ==
    IF outcome \in {"transport", "malformed"} THEN "panicked" ELSE emitter

\* lib.rs:543: the JoinHandle of tokio::spawn is dropped, so the end of a task,
\* a panic included, reaches no other thread: the emitting thread stays where it is
Detached(emitter, outcome) == emitter

\* GuardAfter with the lock of a panicked holder never released
GuardAfterPoisoned(holder, st) == IF st = "done" THEN 0 ELSE holder

\* lib.rs:544 and 557: the MutexGuard is a local of the async block; it is
\* dropped when the block ends and when a panic unwinds it, and a Tokio mutex
\* is not poisoned. Inside error! the block has not ended and the guard lives.
GuardAfter(holder, st) == IF st \in {"done", "panicked"} THEN 0 ELSE holder

\* Borrowed with the session given up once the endpoint has rejected a request
BorrowedSessionDropped(a, outcome) ==
    IF outcome = "rejected" THEN [a EXCEPT !.session_id = ""] ELSE a

\* lib.rs:451: log takes &self and assigns to no field, and the async block
\* only calls log on the guard: the appender after a log call is the appender
\* before it
Borrowed(a, outcome) == a

\* lib.rs:461-470: the answer arrives; the guard is dropped when the block ends
\* (lib.rs:557) or unwinds
task_response(t, outcome) ==
    /\ Running
    /\ tasks[t].st = "inflight"
    /\ outcome \in LogOutcomes(t)
    /\ LET done == [tasks EXCEPT ![t].st = AfterLog(outcome), ![t].outcome = outcome]
       IN IF outcome = "rejected"
          THEN /\ events' = EmitDiag(events, done).events
               /\ tasks' = EmitDiag(events, done).tasks
          ELSE /\ tasks' = done
               /\ UNCHANGED events
    /\ lock' = GuardAfter(lock, AfterLog(outcome))
    /\ panics' = IF outcome = "transport"
                 THEN panics \cup {Panic("task", t, MSG_LOG_SEND)}
                 ELSE IF outcome = "malformed"
                 THEN panics \cup {Panic("task", t, MSG_LOG_JSON)}
                 ELSE panics
    /\ pc' = Detached(pc, outcome)
    /\ appender' = Some(Borrowed(Unwrap(appender), outcome))
    /\ UNCHANGED << strict, capture, initResp, call, env, pcNew, ctor, initReqs,
                    cur, logReqs >>

\* ReentryReturns with on_event submitting under the lock itself: the call made
\* by error! waits for the lock its own caller holds
ReentryTakesLock(t) == lock # t

\* lib.rs:536-558: on_event, called by error! on the thread of task t, clones
\* the Arc, records the fields and spawns; it does not touch the mutex, so it
\* returns while task t holds the lock
ReentryReturns(t) == TRUE

\* lib.rs:469-470 and 557: error! has returned, log returns, the block ends and
\* the MutexGuard is dropped
task_end(t) ==
    /\ Running
    /\ tasks[t].st = "reported"
    /\ ReentryReturns(t)
    /\ lock' = 0
    /\ tasks' = [tasks EXCEPT ![t].st = "done"]
    /\ UNCHANGED << strict, capture, newVars, emitVars, events, logReqs, panics >>

\* ------------------------------------------------------------ specification
Next ==
    \/ \E i \in InitArgs, l \in LogsArgs, e \in Envs : new_start(i, l, e)
    \/ \E resp \in InitOutcomes : new_finish(resp)
    \/ \E e \in AppEvents : on_event_capture(e)
    \/ on_event_spawn
    \/ on_event_no_runtime
    \/ \E t \in Tasks : task_send(t)
    \/ \E t \in Tasks, o \in {"ok", "rejected", "transport", "malformed"} :
           task_response(t, o)
    \/ \E t \in Tasks : task_end(t)

Spec == Init /\ [][Next]_vars

\* ------------------------------------------------------ process shutdown
\* ExitWaitsForNothing with a drain: the process stays until every task is over
ExitDrains == \A t \in Tasks : tasks[t].st \in {"done", "panicked"}

\* lib.rs:543 drops the JoinHandle of every task and PogrLayer has no flush,
\* close or Drop: nothing the application can wait on, and nothing waits
ExitWaitsForNothing == TRUE

\* tests/tracing_test.rs:77-80: the application returns from its last
\* statement; the runtime is dropped and the process exits, scheduled and
\* in-flight tasks are never polled again
shutdown ==
    /\ pcNew = "built"
    /\ pc = "idle"
    /\ ExitWaitsForNothing
    /\ pc' = "exited"
    /\ UNCHANGED << strict, capture, newVars, cur, events, tasks, lock, logReqs, panics >>

NextShutdown == Next \/ shutdown

\* the logs endpoint is left free in its answers
InitShutdown == Init /\ strict = FALSE

SpecShutdown == InitShutdown /\ [][NextShutdown]_vars

\* ------------------------------------------------------------------ fairness
\* What the Tokio scheduler gives a spawned task: a task that is ready is
\* polled, and tokio::sync::Mutex hands the lock to its waiters in FIFO order,
\* so a task that waits for the lock gets it once it has been free often
\* enough. Nothing makes the logs endpoint answer: the Client of lib.rs:395 is
\* built by Client::new(), with no timeout, so the arrival of the answer
\* (task_response) has no fairness condition.
SchedulerFairness ==
    \A t \in 1..MaxEvents :
        /\ SF_vars(t \in Tasks /\ task_send(t))
        /\ WF_vars(t \in Tasks /\ task_end(t))

SpecFair == Spec /\ SchedulerFairness

\* the part of it that a task which holds the lock needs: once error! has
\* returned the task is ready, and a ready task is polled
TaskEndFairness ==
    \A t \in 1..MaxEvents : WF_vars(t \in Tasks /\ task_end(t))

SpecEnds == Spec /\ TaskEndFairness

\* ------------------------------------------- after the application went silent
\* The pipeline from the moment the application has emitted its last event:
\* the appender is the one tests/tracing_test.rs:60 builds, each event emitted
\* has its task scheduled, and from here only the tasks run.
SilentAppender ==
    NewAppender([service_name |-> "app",
                 environment |-> DEFAULT_ENVIRONMENT,
                 service_type |-> DEFAULT_SERVICE_TYPE,
                 init_endpoint_url |-> "http://mock/v1/intake/init",
                 logs_endpoint_url |-> DEFAULT_LOGS_ENDPOINT],
                "test_session_id")

\* the events the application emitted before it went silent, one to MaxEvents
Emitted == UNION {[1..n -> AppEvents] : n \in 1..MaxEvents}

InitQuiesce ==
    /\ strict = FALSE
    /\ initResp = Some([kind |-> "json", success |-> TRUE,
                        session_id |-> "test_session_id"])
    /\ call = Some([init_endpoint |-> Some("http://mock/v1/intake/init"),
                    logs_endpoint |-> None])
    /\ env = None
    /\ pcNew = "built"
    /\ ctor = None
    /\ initReqs = << [url |-> "http://mock/v1/intake/init",
                      POGR_ACCESS |-> "test_access_key",
                      POGR_SECRET |-> "test_secret_key"] >>
    /\ appender = Some(SilentAppender)
    /\ pc = "idle"
    /\ cur = None
    /\ capture = None
    /\ \E es \in Emitted :
          /\ events = [i \in DOMAIN es |-> [src |-> "app", event |-> es[i]]]
          /\ tasks = [i \in DOMAIN es |-> NewTask(Capture(i, es[i]))]
    /\ lock = 0
    /\ logReqs = << >>
    /\ panics = {}

\* lib.rs:543: the JoinHandle was dropped, so the runtime releases a task as
\* soon as it is over. The oldest task, once over, leaves the model, and with
\* it the event it was spawned for and the request it sent; the tasks that
\* remain move up by one.
task_release ==
    /\ tasks # << >>
    /\ tasks[1].st \in {"done", "panicked"}
    /\ tasks[1].ev = 1
    /\ tasks' = [i \in 1..(Len(tasks) - 1) |-> [tasks[i + 1] EXCEPT !.ev = @ - 1]]
    /\ events' = Tail(events)
    /\ logReqs' = LET Others(r) == r.task # 1
                      kept == SelectSeq(logReqs, Others)
                  IN [i \in 1..Len(kept) |-> [kept[i] EXCEPT !.task = @ - 1]]
    /\ lock' = IF lock = 0 THEN 0 ELSE lock - 1
    /\ panics' = {[p EXCEPT !.id = @ - 1] : p \in {q \in panics : q.id # 1}}
    /\ UNCHANGED << strict, capture, newVars, emitVars >>

NextQuiesce ==
    \/ \E t \in Tasks : task_send(t)
    \/ \E t \in Tasks, o \in {"ok", "rejected", "transport", "malformed"} :
           task_response(t, o)
    \/ \E t \in Tasks : task_end(t)
    \/ task_release

\* every request is answered, or fails in transport, in the end
AnswerFairness ==
    \A t \in 1..MaxEvents :
        WF_vars(t \in Tasks /\ \E o \in {"ok", "rejected", "transport", "malformed"} :
                                  task_response(t, o))

SpecQuiesce ==
    /\ InitQuiesce
    /\ [][NextQuiesce]_vars
    /\ SchedulerFairness
    /\ AnswerFairness
    /\ WF_vars(task_release)

\* ------------------------------------------- one capture, field by field
\* The two pure parts of a capture, JsonVisitor and serialize_metadata, applied
\* to callsites and fields of every kind: capture holds the metadata of one
\* event, the fields visited so far (visits), the visitor's map (fields) and
\* the serialized metadata once computed (data).
MetadataPool ==
    [name : {"event src/main.rs:42"}, target : {"app"}, level : Levels,
     file : {None, Some("src/main.rs")}, line : {None, Some(42)}]

FieldNames == {"n", "m"}

\* one or more values of every kind the Visit impl handles
FieldPool ==
    [name : FieldNames, kind : {"i64"}, value : {-1}]
    \cup [name : FieldNames, kind : {"u64"}, value : {7}]
    \cup [name : FieldNames, kind : {"f64"},
          value : {[cls |-> "finite", n |-> 2], [cls |-> "nan", n |-> 0],
                   [cls |-> "inf", n |-> 0]}]
    \cup [name : FieldNames, kind : {"bool"}, value : {TRUE}]
    \cup [name : FieldNames, kind : {"str"}, value : {"TestService"}]
    \cup [name : FieldNames, kind : {"error"},
          value : {[display |-> "boom", debug |-> "Custom { kind: Other, error: boom }"]}]
    \cup [name : FieldNames, kind : {"debug"},
          value : {[display |-> "1, 2", debug |-> "Pair(1, 2)"]}]

runVars == << strict, newVars, emitVars, events, tasks, lock, logReqs, panics >>

InitCapture ==
    /\ strict = FALSE
    /\ initResp = None
    /\ call = None
    /\ env = None
    /\ pcNew = "start"
    /\ ctor = None
    /\ initReqs = << >>
    /\ appender = None
    /\ pc = "idle"
    /\ cur = None
    /\ capture \in {Some([metadata |-> m, visits |-> << >>,
                          fields |-> JsonVisitor_new, data |-> None]) :
                        m \in MetadataPool}
    /\ events = << >>
    /\ tasks = << >>
    /\ lock = 0
    /\ logReqs = << >>
    /\ panics = {}

\* lib.rs:541: event.record(&mut visitor) calls the visitor once per field
capture_visit(f) ==
    /\ IsSome(capture)
    /\ Unwrap(capture).data = None
    /\ Len(Unwrap(capture).visits) < MaxVisits
    /\ capture' = Some([Unwrap(capture) EXCEPT
                            !.visits = Append(@, f),
                            !.fields = Visit(@, f)])
    /\ UNCHANGED runVars

\* lib.rs:553: data: serialize_metadata(metadata)
capture_serialize ==
    /\ IsSome(capture)
    /\ Unwrap(capture).data = None
    /\ capture' = Some([Unwrap(capture) EXCEPT
                            !.data = Some(serialize_metadata(Unwrap(capture).metadata))])
    /\ UNCHANGED runVars

NextCapture ==
    \/ \E f \in FieldPool : capture_visit(f)
    \/ capture_serialize

SpecCapture == InitCapture /\ [][NextCapture]_vars

\* ------------------------------------------------------------------ claims
Finished(t) == tasks[t].st \in {"done", "panicked"}
Events == 1..Len(events)
Posts == 1..Len(logReqs)

\* number of POSTs sent to the logs endpoint for event e
PostsFor(e) == Cardinality({i \in Posts : tasks[logReqs[i].task].ev = e})

\* every call of on_event is over and every scheduled task has run
Quiescent == pc # "spawn" /\ \A t \in Tasks : Finished(t)

\* C1: once every scheduled task has run, each event delivered to on_event has
\* produced exactly one POST to the logs endpoint (none twice, none lost).
C1_ExactlyOnePost == Quiescent => \A e \in Events : PostsFor(e) = 1

\* C2: at most one dispatch task holds the appender lock, so at most one logs
\* request is in flight; a task holds it from before its request is sent until
\* its log call is over.
C2_OneInFlight ==
    /\ Cardinality({t \in Tasks : tasks[t].st \in {"inflight", "reported"}}) <= 1
    /\ Cardinality({t \in Tasks : tasks[t].st = "inflight"}) <= 1
    /\ \A t \in Tasks : tasks[t].st \in {"inflight", "reported"} <=> lock = t
    /\ \A i \in Posts : ~Finished(logReqs[i].task) => lock = logReqs[i].task

\* C2 witness: one task has its request in flight while another waits for the lock
C2_Witness ==
    \E t, u \in Tasks : tasks[t].st = "inflight" /\ tasks[u].st = "scheduled"

\* C3: on_event never waits for the lock or the remote call: once it has
\* captured, its next step can always be taken, and that step schedules one
\* task and returns the emitting thread to idle.
C3_SchedulesAndReturns ==
    /\ [](pc = "spawn" => ENABLED on_event_spawn)
    /\ [][pc = "spawn" /\ pc' # "spawn"
            => pc' = "idle" /\ Len(tasks') = Len(tasks) + 1]_vars

SubmitFailures == {"rejected", "transport", "malformed"}

\* a step in which the submission of some task fails
FailureStep ==
    \E t \in Tasks : tasks[t].outcome = "none" /\ tasks'[t].outcome \in SubmitFailures

\* C4: a submission failure never reaches the emitting code path or the host:
\* the step leaves the emitting thread, the constructor and the appender as they
\* were, ends no task but the failing one, and a panic it raises is that task's.
C4_FailureContained ==
    /\ [](\A p \in panics : p.msg \in {MSG_LOG_SEND, MSG_LOG_JSON}
              => p.who = "task" /\ tasks[p.id].st = "panicked")
    /\ [][FailureStep =>
            /\ pc' = pc /\ cur' = cur /\ pcNew' = pcNew /\ appender' = appender
            /\ \A p \in panics' \ panics : p.who = "task"
            /\ \A u \in Tasks : tasks'[u].st # tasks[u].st
                                  => tasks'[u].outcome \in SubmitFailures]_vars

\* C4 witness: a task died of a failed submission and the emitting thread is idle
C4_Witness ==
    /\ pc = "idle"
    /\ \E t \in Tasks : tasks[t].st = "panicked" /\ tasks[t].outcome = "transport"

\* C5: when the logs endpoint answers success = false, log completes normally
\* (the task does not panic) and one diagnostic error event is emitted.
C5_RejectedIsDiagnosed ==
    /\ \A t \in Tasks : tasks[t].outcome = "rejected"
          => /\ tasks[t].st \in {"reported", "done"}
             /\ \A p \in panics : ~(p.who = "task" /\ p.id = t)
    /\ Cardinality({t \in Tasks : tasks[t].outcome = "rejected"})
         = Cardinality({e \in Events : events[e].src = "diag"})
    /\ \A e \in Events : events[e].src = "diag" => events[e].event.level = "ERROR"

\* C5 witness: a task whose submission was answered success = false has ended
C5_Witness == \E t \in Tasks : tasks[t].outcome = "rejected" /\ tasks[t].st = "done"

InitErrors == {MSG_EXE, MSG_ACCESS, MSG_SECRET, MSG_INIT_SEND, MSG_INIT_JSON, MSG_INIT_FAIL}

\* C6: new produces no appender in any InitError case, and so nothing is
\* submitted; an appender it returns comes from an answer with success = true.
C6_NoAppenderOnInitError ==
    /\ (\E p \in panics : p.who = "new")
          => appender = None /\ pcNew = "panicked" /\ events = << >> /\ logReqs = << >>
    /\ IsSome(initResp) /\ ~(Unwrap(initResp).kind = "json" /\ Unwrap(initResp).success)
          => appender = None /\ pcNew = "panicked"
    /\ IsSome(call) /\ initReqs = << >> => appender = None /\ pcNew = "panicked"
    /\ pcNew = "panicked" => \E p \in panics : p.who = "new" /\ p.msg \in InitErrors
    /\ IsSome(appender)
          => /\ pcNew = "built"
             /\ IsSome(initResp)
             /\ Unwrap(initResp).kind = "json"
             /\ Unwrap(initResp).success

\* C6 witness: the handshake was answered success = false and new has panicked
C6_Witness ==
    /\ IsSome(initResp)
    /\ Unwrap(initResp).kind = "json"
    /\ ~Unwrap(initResp).success
    /\ pcNew = "panicked"

\* C7: when the init endpoint answers success = true with session id S, the
\* appender holds session_id = S and, as init_endpoint, the URL passed to new.
C7_SessionAndInitEndpoint ==
    pcNew = "built" =>
        /\ IsSome(appender)
        /\ Unwrap(appender).session_id = Unwrap(initResp).session_id
        /\ IsSome(Unwrap(call).init_endpoint)
              => Unwrap(appender).init_endpoint = Unwrap(Unwrap(call).init_endpoint)

\* C7 witness: an appender built from an explicit init endpoint and the empty id
C7_Witness ==
    /\ pcNew = "built"
    /\ IsSome(Unwrap(call).init_endpoint)
    /\ Unwrap(initResp).session_id = ""

\* C8: every request log sends carries INTAKE_SESSION_ID = the session_id of the
\* appender, the id the handshake returned; against an endpoint that answers
\* success = true to that session id alone, no log call fails.
C8_SessionHeader ==
    /\ \A i \in Posts :
          /\ logReqs[i].INTAKE_SESSION_ID = Unwrap(appender).session_id
          /\ logReqs[i].INTAKE_SESSION_ID = Unwrap(initResp).session_id
          /\ logReqs[i].url = Unwrap(appender).logs_endpoint
    /\ strict => /\ \A t \in Tasks : tasks[t].outcome \in {"none", "ok"}
                 /\ \A t \in Tasks : tasks[t].st # "panicked"
                 /\ \A e \in Events : events[e].src # "diag"

\* C8 witness: against such an endpoint two submissions have completed
C8_Witness ==
    /\ strict
    /\ Cardinality({t \in Tasks : tasks[t].st = "done" /\ tasks[t].outcome = "ok"}) = 2

\* C9: on_event returns normally for every event and in every state, with or
\* without an async runtime on the calling thread: the emitting thread never
\* unwinds out of on_event.
C9_OnEventReturns == \A p \in panics : p.who # "emitter"

\* C10: the request sent for event e carries the field map and metadata captured
\* inside on_event(e), whatever was emitted or dispatched in between.
C10_CaptureBeforeSubmit ==
    \A i \in Posts :
        LET e == events[tasks[logReqs[i].task].ev].event
        IN /\ logReqs[i].body.tags = event_record(JsonVisitor_new, e.visits)
           /\ logReqs[i].body.data = serialize_metadata(Metadata(e))
           /\ logReqs[i].body.severity = LevelDisplay(e.level)

\* C10 witness: the request of the second event was sent before that of the
\* first, and the two events differ
C10_Witness ==
    /\ Len(logReqs) = 2
    /\ tasks[logReqs[1].task].ev = 2
    /\ tasks[logReqs[2].task].ev = 1
    /\ events[1].event # events[2].event

\* requests task t has sent to the logs endpoint
PostsBy(t) == {i \in Posts : logReqs[i].task = t}

\* tasks whose submit call did not succeed
FailedTasks == {t \in Tasks : tasks[t].outcome \in {"rejected", "transport", "malformed"}}

\* C11: a submission is never retried or queued again: whatever the outcome of
\* its submit call, a task sends at most one request and an event's LogRequest
\* reaches the logs endpoint at most once.
C11_AtMostOnce ==
    /\ \A t \in Tasks : Cardinality(PostsBy(t)) <= 1
    /\ \A e \in Events : PostsFor(e) <= 1
    /\ \A t \in FailedTasks : Cardinality(PostsBy(t)) = 1

\* C11 witness: a submission has failed, its task is over and the lock is free
\* again, and the endpoint has seen that event once
C11_Witness ==
    \E t \in FailedTasks :
        /\ Finished(t)
        /\ lock = 0
        /\ PostsFor(tasks[t].ev) = 1

\* C12: one call of new sends at most one handshake request: none after a
\* failed handshake, none once the appender exists, and exactly one has been
\* sent whenever the call got as far as the handshake.
C12_OneHandshake ==
    /\ Len(initReqs) <= 1
    /\ pcNew \in {"awaiting", "built"} => Len(initReqs) = 1
    /\ IsSome(initResp) => Len(initReqs) = 1
    /\ pcNew = "start" => Len(initReqs) = 0

\* C12 witness: the handshake has failed for want of an answer, the call is over
\* and one request was sent
C12_Witness ==
    /\ Len(initReqs) = 1
    /\ IsSome(initResp)
    /\ Unwrap(initResp).kind = "transport"
    /\ pcNew = "panicked"

\* url is what the precedence argument > environment variable > default gives
FollowsPrecedence(url, arg, envVar, default) ==
    /\ IsSome(arg) => url = Unwrap(arg)
    /\ ~IsSome(arg) /\ IsSome(envVar) => url = Unwrap(envVar)
    /\ ~IsSome(arg) /\ ~IsSome(envVar) => url = default

\* the init and the logs URL each follow the precedence, from their own
\* argument, their own environment variable and their own default
BothFollowPrecedence(init_url, logs_url) ==
    /\ FollowsPrecedence(init_url, Unwrap(call).init_endpoint,
                         Unwrap(env).POGR_INIT_ENDPOINT, DEFAULT_INIT_ENDPOINT)
    /\ FollowsPrecedence(logs_url, Unwrap(call).logs_endpoint,
                         Unwrap(env).POGR_LOGS_ENDPOINT, DEFAULT_LOGS_ENDPOINT)

\* C13: each endpoint URL is the explicit argument when one is given, else the
\* environment variable (POGR_INIT_ENDPOINT, POGR_LOGS_ENDPOINT) when set, else
\* the hardcoded default, each endpoint by its own argument and variable: so
\* for the URLs new resolves, for the handshake it sends and for the appender
\* it returns.
C13_EndpointPrecedence ==
    /\ [](pcNew = "awaiting" =>
            /\ BothFollowPrecedence(Unwrap(ctor).init_endpoint_url,
                                    Unwrap(ctor).logs_endpoint_url)
            /\ initReqs[Len(initReqs)].url = Unwrap(ctor).init_endpoint_url)
    /\ [][pcNew = "awaiting" /\ pcNew' = "built" =>
            BothFollowPrecedence(Unwrap(appender').init_endpoint,
                                 Unwrap(appender').logs_endpoint)]_vars

\* C13 witness: new has resolved the init URL from the environment, no argument
\* given, and the logs URL from its argument although the variable is set
C13_Witness ==
    /\ pcNew = "awaiting"
    /\ ~IsSome(Unwrap(call).init_endpoint)
    /\ IsSome(Unwrap(env).POGR_INIT_ENDPOINT)
    /\ Unwrap(ctor).init_endpoint_url = Unwrap(Unwrap(env).POGR_INIT_ENDPOINT)
    /\ IsSome(Unwrap(call).logs_endpoint)
    /\ IsSome(Unwrap(env).POGR_LOGS_ENDPOINT)
    /\ Unwrap(ctor).logs_endpoint_url = Unwrap(Unwrap(call).logs_endpoint)

\* the next step of dispatch task t
TaskStep(t) ==
    \/ task_send(t)
    \/ \E o \in {"ok", "rejected", "transport", "malformed"} : task_response(t, o)
    \/ task_end(t)

\* C14 as stated: a dispatch task that has not terminated can always take its
\* next step, whatever the other tasks are doing; it never waits for another
\* task to finish its submit call.
C14_NeverWaitsForATask ==
    \A t \in Tasks : ~Finished(t) => ENABLED TaskStep(t)

\* C14 amended: a dispatch task waits for nothing but the appender lock: a
\* scheduled task can start its submit call exactly when the lock is free, in
\* whatever state the other tasks are, and a task that holds the lock can
\* always take its next step. While another task holds the lock, which it does
\* for the whole of its submit call, the scheduled task waits.
C14_WaitsOnlyForLock ==
    \A t \in Tasks :
        /\ tasks[t].st = "scheduled" => (ENABLED task_send(t) <=> lock = 0)
        /\ tasks[t].st \in {"inflight", "reported"} => ENABLED TaskStep(t)

\* C14 witness: a scheduled task cannot take its step because a task spawned
\* after it is inside its submit call and holds the lock
C14_Witness ==
    \E t, u \in Tasks :
        /\ t < u
        /\ tasks[t].st = "scheduled"
        /\ ~ENABLED TaskStep(t)
        /\ lock = u
        /\ tasks[u].st = "inflight"

\* C15: under fair scheduling of the tasks, every dispatch task that on_event
\* has scheduled eventually terminates, by completing its submit call or by
\* failing in it.
C15_EveryTaskTerminates ==
    \A t \in 1..MaxEvents : (t \in Tasks) ~> (t \in Tasks /\ Finished(t))

\* C16: no delivery order holds between distinct events: whenever the tasks of
\* two events are both scheduled and the lock is free, either of them can be
\* the next to send, so the request of the event emitted second can reach the
\* logs endpoint before the request of the event emitted first, and after it.
C16_EitherOrder ==
    \A t, u \in Tasks :
        (t # u /\ tasks[t].st = "scheduled" /\ tasks[u].st = "scheduled" /\ lock = 0)
            => (ENABLED task_send(t) /\ ENABLED task_send(u))

\* C16 witness: the endpoint has received the requests of two events the
\* application emitted, the one emitted second first
C16_Witness ==
    /\ Len(logReqs) = 2
    /\ tasks[logReqs[1].task].ev = 2
    /\ tasks[logReqs[2].task].ev = 1
    /\ events[1].src = "app"
    /\ events[2].src = "app"

\* the same two events, received in the order of emission
C16_InOrder ==
    /\ Len(logReqs) = 2
    /\ tasks[logReqs[1].task].ev = 1
    /\ tasks[logReqs[2].task].ev = 2
    /\ events[1].src = "app"
    /\ events[2].src = "app"

\* the values of POGR_ACCESS and POGR_SECRET in the environments of Envs
Secrets == {"test_access_key", "test_secret_key"}

\* no field of r, a record of strings, is a credential
HoldsNoSecret(r) == \A k \in DOMAIN r : r[k] \notin Secrets

\* no entry of m, a map of JSON values, is a credential
JsonHoldsNoSecret(m) == \A k \in DOMAIN m : m[k].t = "string" => m[k].v \notin Secrets

\* C17: the two credentials go into the headers of the handshake request and
\* nowhere else: no field of the PogrAppender holds one, and no request to the
\* logs endpoint carries one, in its URL, its headers, its body, the metadata
\* or the tags.
C17_CredentialsOnlyInHandshake ==
    /\ \A i \in 1..Len(initReqs) :
          /\ initReqs[i].POGR_ACCESS = "test_access_key"
          /\ initReqs[i].POGR_SECRET = "test_secret_key"
    /\ pcNew = "awaiting" =>
          /\ initReqs[Len(initReqs)].POGR_ACCESS = Unwrap(Unwrap(env).POGR_ACCESS)
          /\ initReqs[Len(initReqs)].POGR_SECRET = Unwrap(Unwrap(env).POGR_SECRET)
    /\ IsSome(appender) => HoldsNoSecret(Unwrap(appender))
    /\ \A i \in Posts :
          /\ HoldsNoSecret([k \in DOMAIN logReqs[i] \ {"task", "body"} |-> logReqs[i][k]])
          /\ HoldsNoSecret([k \in DOMAIN logReqs[i].body \ {"data", "tags"} |->
                               logReqs[i].body[k]])
          /\ JsonHoldsNoSecret(logReqs[i].body.data)
          /\ JsonHoldsNoSecret(logReqs[i].body.tags)

\* C17 witness: the handshake carried both credentials, the appender exists
\* and a request has gone to the logs endpoint
C17_Witness ==
    /\ Len(initReqs) = 1
    /\ initReqs[1].POGR_SECRET = "test_secret_key"
    /\ initReqs[1].POGR_ACCESS = "test_access_key"
    /\ IsSome(appender)
    /\ Len(logReqs) >= 1

\* ------------------------------------------------- claims on SpecCapture
\* the field visited last
LastVisit == Unwrap(capture).visits[Len(Unwrap(capture).visits)]

\* the value of the given kind that a JSON value reads back as: a number for
\* the numeric kinds, a boolean for bool, the text for str, error and debug;
\* None when the JSON value is of another type
ReadBack(kind, j) ==
    CASE kind \in {"i64", "u64"} -> IF j.t = "number" THEN Some(j.v) ELSE None
      [] kind = "f64" -> IF j.t = "number"
                         THEN Some([cls |-> "finite", n |-> j.v]) ELSE None
      [] kind = "bool" -> IF j.t = "bool" THEN Some(j.v) ELSE None
      [] kind \in {"str", "error", "debug"} ->
            IF j.t = "string" THEN Some(j.v) ELSE None

\* what a field of each kind has to read back as: the value itself, the display
\* text of an error, the debug text of a debug value
Recorded(f) ==
    CASE f.kind = "error" -> Some(f.value.display)
      [] f.kind = "debug" -> Some(f.value.debug)
      [] OTHER -> Some(f.value)

\* C18: whatever the kind and the value of the field just visited, the JSON
\* value stored under its name reads back as an equivalent value: the same
\* number, boolean or string, the display text of an error, the debug text of
\* a debug value.
C18_RoundTrip ==
    (IsSome(capture) /\ Unwrap(capture).visits # << >>) =>
        ReadBack(LastVisit.kind, Unwrap(capture).fields[LastVisit.name])
            = Recorded(LastVisit)

\* names visited so far, and the last visit under a name
VisitedNames ==
    {Unwrap(capture).visits[i].name : i \in 1..Len(Unwrap(capture).visits)}
LastUnder(name) ==
    LET vs == Unwrap(capture).visits
        last == CHOOSE i \in 1..Len(vs) :
                    /\ vs[i].name = name
                    /\ \A j \in (i + 1)..Len(vs) : vs[j].name # name
    IN vs[last]

\* the serialization of one field: what a new visitor holds for it
Serialized(f) == Visit(JsonVisitor_new, f)[f.name]

\* two JSON values are the same value: same type and, but for null, same content
SameJson(a, b) == a.t = b.t /\ (a.t = "null" \/ a.v = b.v)

\* C19: after any sequence of visits the visitor's map has exactly the names
\* visited as its keys, each with the serialization of the value visited last
\* under that name; a name never visited has no entry, and a new visitor is
\* empty.
C19_LastWriteWins ==
    IsSome(capture) =>
        /\ DOMAIN Unwrap(capture).fields = VisitedNames
        /\ \A name \in VisitedNames :
              SameJson(Unwrap(capture).fields[name], Serialized(LastUnder(name)))
        /\ \A name \in FieldNames \ VisitedNames :
              name \notin DOMAIN Unwrap(capture).fields
        /\ Unwrap(capture).visits = << >> => Unwrap(capture).fields = JsonVisitor_new
        /\ Unwrap(capture).fields = event_record(JsonVisitor_new, Unwrap(capture).visits)
        /\ DOMAIN JsonVisitor_new = {}

\* C19 witness: one name was visited twice, as a number and then as a boolean,
\* and the map has the one entry, the boolean
C19_Witness ==
    /\ IsSome(capture)
    /\ Len(Unwrap(capture).visits) = 2
    /\ Unwrap(capture).visits[1].name = Unwrap(capture).visits[2].name
    /\ Unwrap(capture).visits[1].kind = "i64"
    /\ Unwrap(capture).visits[2].kind = "bool"
    /\ Cardinality(DOMAIN Unwrap(capture).fields) = 1
    /\ Unwrap(capture).fields[Unwrap(capture).visits[2].name] = JBool(TRUE)

\* C20: serialize_metadata returns, for every metadata, an object with exactly
\* the keys name, target, level, file and line; file is null when the callsite
\* has no file and the file string otherwise, line is null when it has no line
\* and that integer otherwise, each whatever the other is; level is a string,
\* never null.
C20_MetadataObject ==
    IsSome(capture) =>
        /\ Unwrap(capture).data = None => ENABLED capture_serialize
        /\ IsSome(Unwrap(capture).data) =>
              LET d == Unwrap(Unwrap(capture).data)
                  m == Unwrap(capture).metadata
              IN /\ DOMAIN d = {"name", "target", "level", "file", "line"}
                 /\ d.name = JStr(m.name)
                 /\ d.target = JStr(m.target)
                 /\ d.level.t = "string"
                 /\ d.level # JNull
                 /\ IsSome(m.file) => d.file = JStr(Unwrap(m.file))
                 /\ ~IsSome(m.file) => d.file = JNull
                 /\ IsSome(m.line) => d.line = JNum(Unwrap(m.line))
                 /\ ~IsSome(m.line) => d.line = JNull

\* C20 witness: the metadata of a callsite with a line and no file has been
\* serialized
C20_Witness ==
    /\ IsSome(capture)
    /\ IsSome(Unwrap(capture).data)
    /\ ~IsSome(Unwrap(capture).metadata.file)
    /\ IsSome(Unwrap(capture).metadata.line)
    /\ Unwrap(Unwrap(capture).data).file = JNull
    /\ Unwrap(Unwrap(capture).data).line = JNum(42)

\* --------------------------------------------------- claims C21 to C28
\* C21: in every request sent, the level entry of data is the severity name of
\* the event as a JSON string, the same name the request carries in its
\* severity field.
C21_LevelIsSeverity ==
    \A i \in Posts : logReqs[i].body.data.level = JStr(logReqs[i].body.severity)

\* C22: once built, the appender never changes: session_id, logs_endpoint,
\* init_endpoint, service_name, environment and service_type keep their values
\* across every step, of any task, whatever the outcome of its submission.
C22_AppenderUnchanged ==
    [][IsSome(appender) => appender' = appender]_vars

\* C22 witness: with the appender built, one submission has succeeded and
\* another has failed
C22_Witness ==
    /\ IsSome(appender)
    /\ \E t, u \in Tasks :
          /\ tasks[t].outcome = "ok"
          /\ tasks[u].outcome \in {"rejected", "transport", "malformed"}

\* the handshake request has been sent and answered with success = true
HandshakeSucceeded ==
    /\ Len(initReqs) = 1
    /\ IsSome(initResp)
    /\ Unwrap(initResp).kind = "json"
    /\ Unwrap(initResp).success

\* C23: no request goes to the logs endpoint, and no dispatch task exists,
\* before the handshake request has been answered with success = true; a step
\* that sends a logs request starts from a state where it has been.
C23_SessionBeforeUse ==
    /\ [](logReqs # << >> => HandshakeSucceeded)
    /\ [](tasks # << >> => HandshakeSucceeded)
    /\ [][logReqs' # logReqs => HandshakeSucceeded]_vars

\* C23 witness: a logs request has been sent, after a handshake answered with
\* success = true
C23_Witness ==
    /\ HandshakeSucceeded
    /\ Len(logReqs) >= 1
    /\ logReqs[1].INTAKE_SESSION_ID = Unwrap(initResp).session_id

\* the event whose request is the i-th received by the logs endpoint
EventOfPost(i) == events[tasks[logReqs[i].task].ev].event

\* C24: the body of every request sent has exactly the seven fields of a
\* LogRequest: service, environment and type are the service_name, environment
\* and service_type of the appender, severity is the level of the event, log
\* is the fixed text, data is serialize_metadata of the metadata of the event
\* and tags is the map JsonVisitor collected from the fields of the event.
C24_LogRequestComposition ==
    \A i \in Posts :
        LET body == logReqs[i].body
            a == Unwrap(appender)
        IN /\ DOMAIN body = {"service", "environment", "severity", "type",
                             "log", "data", "tags"}
           /\ body.service = a.service_name
           /\ body.environment = a.environment
           /\ body.type = a.service_type
           /\ body.severity = EventOfPost(i).level
           /\ body.severity \in Levels
           /\ body.log = LOG_TEXT
           /\ body.data = serialize_metadata(Metadata(EventOfPost(i)))
           /\ body.tags = event_record(JsonVisitor_new, EventOfPost(i).visits)

\* C24 witness: the request of an application event without file and line,
\* with a repeated field name, sent by an appender named by SERVICE_NAME
C24_Witness ==
    \E i \in Posts :
        /\ events[tasks[logReqs[i].task].ev].src = "app"
        /\ EventOfPost(i).file = None
        /\ logReqs[i].body.service = "svc"
        /\ logReqs[i].body.type = "worker"
        /\ logReqs[i].body.data.line = JNull
        /\ DOMAIN logReqs[i].body.tags = {"n"}

\* tasks that have not finished their submit call
Unfinished == {t \in Tasks : ~Finished(t)}

\* C25: shutdown waits for no task: the application can leave whenever it is
\* outside on_event, with tasks scheduled or in flight; once the process is
\* gone no task takes a step and no request is sent, so the event of a task
\* that had not sent by then never reaches the logs endpoint.
C25_NoDrainAtShutdown ==
    /\ []((pcNew = "built" /\ pc = "idle") => ENABLED shutdown)
    /\ [][pc = "exited" => (tasks' = tasks /\ logReqs' = logReqs /\ lock' = lock)]_vars
    /\ [][(pc # "exited" /\ pc' = "exited") =>
            (tasks' = tasks /\ logReqs' = logReqs)]_vars

\* C25 witness: the process is gone with one task in flight and another never
\* started, whose event has reached the endpoint not once
C25_Witness ==
    /\ pc = "exited"
    /\ \E t, u \in Unfinished :
          /\ tasks[t].st = "inflight"
          /\ tasks[u].st = "scheduled"
          /\ PostsFor(tasks[u].ev) = 0

\* tasks that failed inside log, on a transport or a deserialization error
Failed == {t \in Tasks : tasks[t].st = "panicked"}

\* C26: a task that fails inside log does not keep the lock: the lock is held
\* by a task only while that task is inside its submit call, the step that
\* fails a task frees it, and with a failed task around every scheduled task,
\* spawned before or after the failure, can take the lock and send whenever no
\* running task holds it.
C26_LockReleasedOnFailure ==
    /\ [](\A t \in Failed : lock # t)
    /\ [](lock # 0 => lock \in Tasks /\ tasks[lock].st \in {"inflight", "reported"})
    /\ [][\A t \in Tasks : (t \notin Failed /\ tasks'[t].st = "panicked") => lock' = 0]_vars
    /\ []((Failed # {} /\ lock = 0) =>
            \A u \in Tasks : tasks[u].st = "scheduled" => ENABLED task_send(u))

\* C26 witness: a task has failed inside log, and after that another task,
\* spawned before it, has taken the lock, sent its request and completed
C26_Witness ==
    \E t \in Failed : \E u \in Tasks :
        /\ u < t
        /\ tasks[u].st = "done"
        /\ \E i, j \in Posts :
              /\ logReqs[i].task = t
              /\ logReqs[j].task = u
              /\ i < j

\* dispatch tasks of diagnostic events
DiagTasks == {d \in Tasks : events[tasks[d].ev].src = "diag"}

\* C27: while a task is inside error!, after a success = false answer, it
\* holds the lock, the diagnostic has been given a task of its own, which
\* waits, and the emitting task can go on; when it ends the lock is free, and
\* the task of the diagnostic can then take it. With ready tasks polled, the
\* emitting task does end.
C27_ReentryNoDeadlock ==
    /\ [](\A t \in Tasks : tasks[t].st = "reported" =>
            /\ lock = t
            /\ ENABLED task_end(t)
            /\ \E d \in DiagTasks : d > t /\ tasks[d].st = "scheduled")
    /\ [][\A t \in Tasks : (tasks[t].st = "reported" /\ tasks'[t].st # "reported")
            => (tasks'[t].st = "done" /\ lock' = 0)]_vars
    /\ [](\A d \in DiagTasks : (tasks[d].st = "scheduled" /\ lock = 0)
            => ENABLED task_send(d))
    /\ \A t \in 1..MaxEvents :
          (t \in Tasks /\ tasks[t].st = "reported")
              ~> (t \in Tasks /\ tasks[t].st = "done")

\* C27 witness: the task that emitted the diagnostic has ended, and the task of
\* the diagnostic has taken the lock and sent its request
C27_Witness ==
    \E t \in Tasks : \E d \in DiagTasks :
        /\ tasks[t].outcome = "rejected"
        /\ tasks[t].st = "done"
        /\ d > t
        /\ tasks[d].st = "inflight"
        /\ lock = d
        /\ \E i \in Posts : logReqs[i].task = d

\* C28: after the application has emitted its last event, the pipeline comes
\* to a state with no dispatch task scheduled, in flight or inside error!,
\* whatever the logs endpoint answers.
C28_Quiesces == <>(\A t \in Tasks : Finished(t))

====
